---- MODULE Spec2Model ----
(***************************************************************************)
(* AsyncQueue (src/unnamed/part_002): a cancellable, closeable asynchronous *)
(* queue.  The queue's fields, the promises returned by pop, the abort      *)
(* signals and their listeners, and the stream loops are the state; every   *)
(* method is a pure operator from queue state to queue state, and every     *)
(* action installs the result of one synchronous call (run to completion,   *)
(* as JavaScript executes it).  The continuation of `await this.pop(signal)`*)
(* in a stream loop is a step of its own (Dispatch, Caught): it runs later,    *)
(* in a microtask, so other calls can happen between the settlement of the  *)
(* promise and the handler invocation.                                      *)
(***************************************************************************)
EXTENDS Integers, Sequences, FiniteSets, TLC

\* Bounds of the model.
MaxPops == 3        \* pop() calls (by consumers and by stream loops together)
MaxPush == 2        \* push() calls; the k-th call pushes the opaque value k
MaxCloses == 2      \* close() calls

UserSignals == {"c1"}           \* AbortControllers owned by callers of pop
Streams == {"s1", "s2"}         \* stream() calls; each owns one AbortController
Signals == UserSignals \cup Streams
NoSignal == "undefined"         \* pop() called without an abortSignal
PopIds == 1..MaxPops
Values == 1..MaxPush
\* What a handler invocation does: it returns, throws, closes the queue, or
\* closes the queue and then pushes to it or pops from it.
HandlerActs == {"return", "throw", "close", "closePush", "closePop"}

QueueClosed == "Queue is closed"
Cancelled == "Stream stopped"

VARIABLES
  messages,         \* AsyncQueue.messages
  pendingResolves,  \* AsyncQueue.pendingResolves: wrapperFn of pop p, as p
  pendingRejects,   \* AsyncQueue.pendingRejects: reject of pop p, as p
  closed,           \* AsyncQueue.closed
  state,            \* state[p]: the promise of the p-th pop call
  value,            \* value[p]: the value that promise was fulfilled with
  signal,           \* signal[p]: the abortSignal given to the p-th pop call
  registered,       \* registered[p]: the p-th pop pushed a waiter
  abortedAtCall,    \* abortedAtCall[p]: its signal was aborted when pop was called
  aborted,          \* aborted[s]: AbortSignal.aborted
  listeners,        \* listeners[s]: the 'abort' listeners (onAbort of pop p, as p)
  pops,             \* number of pop calls so far
  pushes,           \* number of push calls so far
  pc,               \* pc[s]: where stream s's loop is
  cur,              \* cur[s]: the pop the loop of s awaits
  handled,          \* handled[s]: the values handler of s was invoked with
  stopAt,           \* stopAt[s]: Len(handled[s]) at the first stop(), or -1
  discarded,        \* the values that were in messages at the first close()
  refused,          \* the values whose push threw 'Queue is closed'
  closes,           \* number of close calls so far
  thrown,           \* thrown[s]: an invocation of the handler of s threw
  stopPushes,       \* stopPushes[s]: pushes at the first stop(), or -1
  aqs,              \* AsyncQueueStore.aqs: key -> queue instance
  bqs,              \* BufferQueueStore.bqs: key -> queue instance
  got,              \* the get calls on the stores so far, with what they returned
  checked,          \* the last call of checkSettingsValid and its result
  cqs,              \* the map of a channel-addressed store: key -> queue instance
  cgot              \* the get(from, to, channel) calls so far, with what they returned

qvars == <<messages, pendingResolves, pendingRejects, closed, state, value,
           signal, registered, abortedAtCall, aborted, listeners, pops>>
vars == <<messages, pendingResolves, pendingRejects, closed, state, value,
          signal, registered, abortedAtCall, aborted, listeners, pops, pushes,
          pc, cur, handled, stopAt, discarded, refused, closes, thrown,
          stopPushes, aqs, bqs, got, checked, cqs, cgot>>
\* The stores and the validator: no queue operation touches them.
ovars == <<aqs, bqs, got, checked, cqs, cgot>>

\* The queue, its promises and its signals as one value.
Q == [messages |-> messages, pendingResolves |-> pendingResolves,
      pendingRejects |-> pendingRejects, closed |-> closed, state |-> state,
      value |-> value, signal |-> signal, registered |-> registered,
      abortedAtCall |-> abortedAtCall, aborted |-> aborted,
      listeners |-> listeners, pops |-> pops]

Install(q) ==
  /\ messages' = q.messages
  /\ pendingResolves' = q.pendingResolves
  /\ pendingRejects' = q.pendingRejects
  /\ closed' = q.closed
  /\ state' = q.state
  /\ value' = q.value
  /\ signal' = q.signal
  /\ registered' = q.registered
  /\ abortedAtCall' = q.abortedAtCall
  /\ aborted' = q.aborted
  /\ listeners' = q.listeners
  /\ pops' = q.pops
  /\ UNCHANGED ovars

Range(s) == {s[i] : i \in 1..Len(s)}

\* Array.prototype.indexOf, 1-based; 0 when x is absent.
indexOf(s, x) ==
  IF \E i \in 1..Len(s) : s[i] = x
  THEN CHOOSE i \in 1..Len(s) : s[i] = x /\ \A j \in 1..(i - 1) : s[j] # x
  ELSE 0

\* Array.prototype.splice(i, 1).
splice(s, i) == SubSeq(s, 1, i - 1) \o SubSeq(s, i + 1, Len(s))

\* Array.prototype.filter(r => r !== x).
filter(s, x) == SelectSeq(s, LAMBDA r : r # x)

\* Faulty variant of reject: a settled promise is rejected again.
rejectSettled(q, p, err) == [q EXCEPT !.state[p] = err]

\* A promise settles once: resolve and reject of a settled promise do nothing.
resolve(q, p, msg) ==
  IF q.state[p] = "pending"
  THEN [q EXCEPT !.state[p] = "fulfilled", !.value[p] = msg]
  ELSE q

reject(q, p, err) ==
  IF q.state[p] = "pending" THEN [q EXCEPT !.state[p] = err] ELSE q

\* abortSignal?.removeEventListener('abort', onAbort) of pop p.
removeEventListener(q, p) ==
  IF q.signal[p] = NoSignal
  THEN q
  ELSE [q EXCEPT !.listeners[q.signal[p]] = filter(@, p)]

\* abortSignal?.addEventListener('abort', onAbort) of pop p.
addEventListener(q, p) ==
  IF q.signal[p] = NoSignal
  THEN q
  ELSE [q EXCEPT !.listeners[q.signal[p]] = Append(@, p)]

\* Faulty variant of removeReject: the reject is left in pendingRejects.
removeRejectMissing(q, p) == q

\* rejectIndex = pendingRejects.indexOf(reject); splice when found.
removeReject(q, p) ==
  LET rejectIndex == indexOf(q.pendingRejects, p)
  IN IF rejectIndex >= 1
     THEN [q EXCEPT !.pendingRejects = splice(@, rejectIndex)]
     ELSE q

\* wrapperFn of pop p, called by push with msg.
wrapperFn(q, p, msg) ==
  resolve(removeReject(removeEventListener(q, p), p), p, msg)

\* Faulty variant of filterResolves: the cancelled waiter is left in the list.
filterResolvesKeepsWaiter(q, p) == q

\* Faulty variant of filterResolves: the predicate is inverted (r === wrapperFn).
filterResolvesInverted(q, p) ==
  [q EXCEPT !.pendingResolves = SelectSeq(@, LAMBDA r : r = p)]

\* this.pendingResolves = this.pendingResolves.filter(r => r !== wrapperFn)
filterResolves(q, p) == [q EXCEPT !.pendingResolves = filter(@, p)]

\* onAbort of pop p, called when its signal fires.
onAbort(q, p) ==
  reject(removeEventListener(removeReject(filterResolves(q, p), p), p),
         p, Cancelled)

\* Faulty variant of shiftResolve: Array.prototype.pop(), the newest waiter.
popResolve(pr) == [item |-> pr[Len(pr)], rest |-> SubSeq(pr, 1, Len(pr) - 1)]

\* this.pendingResolves.shift(): the removed first waiter and what is left.
shiftResolve(pr) == [item |-> Head(pr), rest |-> Tail(pr)]

\* Faulty variant of shiftMessage: Array.prototype.pop(), the newest message.
popMessage(m) == [item |-> m[Len(m)], rest |-> SubSeq(m, 1, Len(m) - 1)]

\* this.messages.shift(): the removed first message and what is left.
shiftMessage(m) == [item |-> Head(m), rest |-> Tail(m)]

\* Faulty variant of push: the value is buffered although a pop is waiting.
pushAlwaysBuffers(q, msg) ==
  IF q.closed THEN q ELSE [q EXCEPT !.messages = Append(@, msg)]

\* Faulty variant of push: the closed flag is not checked.
pushIgnoresClosed(q, msg) ==
  IF Len(q.pendingResolves) > 0
  THEN wrapperFn([q EXCEPT !.pendingResolves = Tail(@)],
                 Head(q.pendingResolves), msg)
  ELSE [q EXCEPT !.messages = Append(@, msg)]

\* The error push throws, "none" when it returns.
pushError(q) == IF q.closed THEN QueueClosed ELSE "none"

\* push(msg); on a closed queue it throws and changes nothing.
push(q, msg) ==
  IF q.closed
  THEN q
  ELSE IF Len(q.pendingResolves) > 0
       THEN LET shifted == shiftResolve(q.pendingResolves)
            IN wrapperFn([q EXCEPT !.pendingResolves = shifted.rest],
                         shifted.item, msg)
       ELSE [q EXCEPT !.messages = Append(@, msg)]

\* The registration at the end of pop's executor.
register(q, p) ==
  LET q1 == addEventListener(q, p)
  IN [q1 EXCEPT !.pendingResolves = Append(@, p),
                !.pendingRejects = Append(@, p),
                !.registered[p] = TRUE]

\* Faulty variant of signalAborted: the aborted flag is not looked at.
signalNeverAborted(q, sig) == FALSE

\* abortSignal?.aborted
signalAborted(q, sig) == sig # NoSignal /\ q.aborted[sig]

\* Faulty variant of closedAtEntry: pop does not look at closed on entry.
closedAtEntryMissing(q) == FALSE

\* if (this.closed) at the entry of pop.
closedAtEntry(q) == q.closed

\* if (this.closed) inside the executor of pop's promise.
closedInExecutor(q) == q.closed

\* Faulty variant of pop: the aborted signal is looked at before the buffer.
popChecksAbortFirst(q, sig) ==
  LET p == q.pops + 1
      q0 == [q EXCEPT !.pops = p, !.signal[p] = sig, !.state[p] = "pending",
                      !.abortedAtCall[p] = (sig # NoSignal /\ q.aborted[sig])]
  IN IF closedAtEntry(q0)
     THEN reject(q0, p, QueueClosed)
     ELSE IF signalAborted(q0, sig)
          THEN reject(q0, p, Cancelled)
          ELSE IF Len(q0.messages) > 0
               THEN resolve([q0 EXCEPT !.messages = Tail(@)], p, Head(q0.messages))
               ELSE register(q0, p)

\* pop(abortSignal): the call that creates promise number q.pops + 1.
pop(q, sig) ==
  LET p == q.pops + 1
      q0 == [q EXCEPT !.pops = p, !.signal[p] = sig, !.state[p] = "pending",
                      !.abortedAtCall[p] = (sig # NoSignal /\ q.aborted[sig])]
  IN IF closedAtEntry(q0)
     THEN reject(q0, p, QueueClosed)
     ELSE IF Len(q0.messages) > 0
          THEN LET shifted == shiftMessage(q0.messages)
               IN resolve([q0 EXCEPT !.messages = shifted.rest], p, shifted.item)
          ELSE IF signalAborted(q0, sig)
               THEN reject(q0, p, Cancelled)
               ELSE IF closedInExecutor(q0)
                    THEN reject(q0, p, QueueClosed)
                    ELSE register(q0, p)

\* Faulty variant of dispatchEvent: only the first listener is called.
dispatchEventFirstOnly(q, ls) == IF ls = <<>> THEN q ELSE onAbort(q, Head(ls))

\* The 'abort' event: every listener attached when the signal fires is called.
RECURSIVE dispatchEvent(_, _)
dispatchEvent(q, ls) ==
  IF ls = <<>> THEN q ELSE dispatchEvent(onAbort(q, Head(ls)), Tail(ls))

\* AbortController.abort(): fires once.
abort(q, sig) ==
  IF q.aborted[sig]
  THEN q
  ELSE dispatchEvent([q EXCEPT !.aborted[sig] = TRUE], q.listeners[sig])

\* pendingRejects.forEach(reject => reject(new Error('Queue is closed')))
RECURSIVE rejectAll(_, _)
rejectAll(q, rs) ==
  IF rs = <<>> THEN q ELSE rejectAll(reject(q, Head(rs), QueueClosed), Tail(rs))

\* Faulty variant of slice: slice(1), the first waiter is not captured.
sliceFromOne(s) == IF s = <<>> THEN s ELSE Tail(s)

\* this.pendingRejects.slice(): the waiters close captures.
slice(s) == s

\* Faulty variant of clearMessages: close leaves the buffer as it is.
keepMessages(m) == m

\* What close leaves in this.messages.
clearMessages(m) == <<>>

\* Faulty variant of setClosed: the flag is not set.
closedNotSet(q) == q

\* this.closed = true
setClosed(q) == [q EXCEPT !.closed = TRUE]

\* close()
close(q) ==
  IF q.closed
  THEN q
  ELSE LET captured == slice(q.pendingRejects)
           q1 == [setClosed(q) EXCEPT !.pendingResolves = <<>>,
                                      !.pendingRejects = <<>>]
           q2 == rejectAll(q1, captured)
       IN [q2 EXCEPT !.messages = clearMessages(@)]

\* isClosed()
isClosed == closed

(***************************************************************************)
(* The keyed stores.  A queue instance is the number of its construction:  *)
(* two instances are the same object iff the numbers are equal.            *)
(***************************************************************************)
MaxGets == 3        \* get() calls on the stores
Keys == {"k1", "k2", "k3"}
StoreNames == {"AsyncQueueStore", "BufferQueueStore"}
Absent == 0         \* Map.get(key) of a key the map does not have

\* Map.has(key)
has(map, key) == map[key] # Absent

\* Map.set(key, queue)
set(map, key, queue) == [map EXCEPT ![key] = queue]

\* new AsyncQueue() / new BufferQueue(): an instance no call returned before
newQueue(calls) ==
  1 + Cardinality({calls[i].queue : i \in 1..Len(calls)})

\* Faulty variant of get: a queue is made and stored at every call.
getAlwaysCreates(map, key, calls) ==
  [map |-> set(map, key, newQueue(calls)), queue |-> newQueue(calls)]

\* get(key): the map after the call and the queue returned
get(map, key, calls) ==
  LET map1 == IF ~has(map, key) THEN set(map, key, newQueue(calls)) ELSE map
  IN [map |-> map1, queue |-> map1[key]]

(***************************************************************************)
(* The channel-addressed stores.  A string is the sequence of its          *)
(* characters; an identifier is a string or a number, kept with the text   *)
(* a template literal makes of it.                                         *)
(***************************************************************************)
MaxChannelGets == 2     \* get(from, to, channel) calls on the store
ChannelStoreNames == {"BufferQueueStore", "AsyncQueueStore"}
StringIdentifiers ==
  {[type |-> "string", text |-> s] :
     s \in {<<"a">>, <<"b">>, <<"1">>, <<"a", "-", "b">>, <<"b", "-", "a">>}}
NumberIdentifiers == {[type |-> "number", text |-> <<"1">>]}
Identifiers == StringIdentifiers \cup NumberIdentifiers
Channels == {<<"a">>, <<"b">>}

\* `${from}-${to}-${channel}`
channelKey(from, to, channel) ==
  from.text \o <<"-">> \o to.text \o <<"-">> \o channel

ChannelKeys ==
  {channelKey(from, to, channel) :
     from \in Identifiers, to \in Identifiers, channel \in Channels}

(***************************************************************************)
(* checkSettingsValid.  A circuit is the set of its input names and the    *)
(* set of its output names, the supplied input is the set of its keys, an  *)
(* error is its message and undefined is the empty tuple.                  *)
(***************************************************************************)
MaxInputs == 2      \* length of a participant's inputs and outputs lists
InputNames == {"a", "b"}
OutputNames == {"c"}
NoName == "undefined"           \* participant.name left out
ParticipantNames == {"alice", NoName}
CallerNames == {"alice", "bob", "1"}
Undefined == <<>>

Lists(S) == UNION {[1..n -> S] : n \in 0..MaxInputs}
Participant ==
  [name : ParticipantNames, inputs : Lists(InputNames), outputs : Lists(OutputNames)]
MpcSettings == UNION {[1..n -> Participant] : n \in {0, 1, 2}}
Circuit == [inputs : SUBSET InputNames, outputs : SUBSET OutputNames]

\* i.toString() of an index of mpcSettings
toString(i) == IF i = 0 THEN "0" ELSE IF i = 1 THEN "1" ELSE "2"

\* Faulty variant of areSetsEqual: the sizes are not compared.
areSetsEqualWithoutSize(a, b) == \A item \in a : item \in b

\* areSetsEqual(a, b)
areSetsEqual(a, b) ==
  IF Cardinality(a) # Cardinality(b)
  THEN FALSE
  ELSE \A item \in a : item \in b

\* The inputs of all participants in the order the first loop visits them.
RECURSIVE claimedInputs(_)
claimedInputs(mpcSettings) ==
  IF mpcSettings = <<>>
  THEN <<>>
  ELSE mpcSettings[1].inputs \o claimedInputs(Tail(mpcSettings))

\* The outputs of all participants in the order the second loop visits them.
RECURSIVE claimedOutputs(_)
claimedOutputs(mpcSettings) ==
  IF mpcSettings = <<>>
  THEN <<>>
  ELSE mpcSettings[1].outputs \o claimedOutputs(Tail(mpcSettings))

\* The first position of list whose name participantInputs has already, or 0.
duplicateInput(list) ==
  LET dups == {i \in 1..Len(list) : \E j \in 1..(i - 1) : list[j] = list[i]}
  IN IF dups = {} THEN 0 ELSE CHOOSE i \in dups : \A j \in dups : i <= j

\* Faulty variant of circuitOutputs: the names are taken from the inputs.
circuitOutputsFromInputs(circuit) == circuit.inputs

\* new Set(circuit.info.inputs.map((input) => input.name))
circuitInputs(circuit) == circuit.inputs

\* new Set(circuit.info.outputs.map((output) => output.name))
circuitOutputs(circuit) == circuit.outputs

\* The first position of list whose name is not in outputs, or 0.
foreignOutput(list, outputs) ==
  LET bad == {i \in 1..Len(list) : list[i] \notin outputs}
  IN IF bad = {} THEN 0 ELSE CHOOSE i \in bad : \A j \in bad : i <= j

\* participant.name ?? i.toString(), i being the index from 0
nameOf(mpcSettings, i) ==
  IF mpcSettings[i].name # NoName THEN mpcSettings[i].name ELSE toString(i - 1)

\* mpcSettings.find(...): the position of the first participant called name, or 0
find(mpcSettings, name) ==
  LET found == {i \in 1..Len(mpcSettings) : nameOf(mpcSettings, i) = name}
  IN IF found = {} THEN 0 ELSE CHOOSE i \in found : \A j \in found : i <= j

checkSettingsValid(circuit, mpcSettings, name, input) ==
  LET inputs == claimedInputs(mpcSettings)
      outputs == claimedOutputs(mpcSettings)
      duplicate == duplicateInput(inputs)
      participantInputs == Range(inputs)
      foreign == foreignOutput(outputs, circuitOutputs(circuit))
      inputKeys == input
      currentParticipant == find(mpcSettings, name)
  IN IF duplicate # 0
     THEN <<"Duplicate input: ", inputs[duplicate]>>
     ELSE IF ~areSetsEqual(participantInputs, circuitInputs(circuit))
     THEN <<"Participant inputs do not match the circuit">>
     ELSE IF foreign # 0
     THEN <<"Output ", outputs[foreign], " is not in the circuit">>
     ELSE IF currentParticipant = 0
     THEN <<"Could not find participant with name ", name>>
     ELSE IF ~areSetsEqual(inputKeys, Range(mpcSettings[currentParticipant].inputs))
     THEN <<"Input keys do not match participant inputs">>
     ELSE Undefined


TypeOK ==
  /\ messages \in Seq(Values)
  /\ pendingResolves \in Seq(PopIds)
  /\ pendingRejects \in Seq(PopIds)
  /\ closed \in BOOLEAN
  /\ state \in [PopIds -> {"none", "pending", "fulfilled", Cancelled, QueueClosed}]
  /\ value \in [PopIds -> Values \cup {0}]
  /\ signal \in [PopIds -> Signals \cup {NoSignal}]
  /\ registered \in [PopIds -> BOOLEAN]
  /\ abortedAtCall \in [PopIds -> BOOLEAN]
  /\ aborted \in [Signals -> BOOLEAN]
  /\ listeners \in [Signals -> Seq(PopIds)]
  /\ pops \in 0..MaxPops
  /\ pushes \in 0..MaxPush
  /\ pc \in [Streams -> {"idle", "awaiting", "done", "failed"}]
  /\ cur \in [Streams -> PopIds \cup {0}]
  /\ handled \in [Streams -> Seq(Values)]
  /\ stopAt \in [Streams -> -1..MaxPush]
  /\ discarded \subseteq Values
  /\ refused \subseteq Values
  /\ closes \in 0..MaxCloses
  /\ thrown \in [Streams -> BOOLEAN]
  /\ stopPushes \in [Streams -> -1..MaxPush]
  /\ aqs \in [Keys -> 0..MaxGets]
  /\ bqs \in [Keys -> 0..MaxGets]
  /\ got \in Seq([store : StoreNames, key : Keys, queue : 1..MaxGets])
  /\ cqs \in [ChannelKeys -> 0..MaxChannelGets]
  /\ cgot \in Seq([store : ChannelStoreNames, from : Identifiers,
                    to : Identifiers, channel : Channels,
                    queue : 1..MaxChannelGets])
  /\ checked.called \in BOOLEAN
  /\ checked.called =>
       /\ checked.circuit \in Circuit
       /\ checked.mpcSettings \in MpcSettings
       /\ checked.name \in CallerNames
       /\ checked.input \subseteq InputNames

Init ==
  /\ messages = <<>>
  /\ pendingResolves = <<>>
  /\ pendingRejects = <<>>
  /\ closed = FALSE
  /\ state = [p \in PopIds |-> "none"]
  /\ value = [p \in PopIds |-> 0]
  /\ signal = [p \in PopIds |-> NoSignal]
  /\ registered = [p \in PopIds |-> FALSE]
  /\ abortedAtCall = [p \in PopIds |-> FALSE]
  /\ aborted = [s \in Signals |-> FALSE]
  /\ listeners = [s \in Signals |-> <<>>]
  /\ pops = 0
  /\ pushes = 0
  /\ pc = [s \in Streams |-> "idle"]
  /\ cur = [s \in Streams |-> 0]
  /\ handled = [s \in Streams |-> <<>>]
  /\ stopAt = [s \in Streams |-> -1]
  /\ discarded = {}
  /\ refused = {}
  /\ closes = 0
  /\ thrown = [s \in Streams |-> FALSE]
  /\ stopPushes = [s \in Streams |-> -1]
  /\ aqs = [key \in Keys |-> Absent]
  /\ bqs = [key \in Keys |-> Absent]
  /\ got = <<>>
  /\ cqs = [key \in ChannelKeys |-> Absent]
  /\ cgot = <<>>
  /\ checked = [called |-> FALSE,
                circuit |-> [inputs |-> {}, outputs |-> {}],
                mpcSettings |-> <<>>, name |-> "", input |-> {},
                result |-> Undefined]

\* queue.push(v) by a producer.
Push ==
  /\ pushes < MaxPush
  /\ pushes' = pushes + 1
  /\ Install(push(Q, pushes + 1))
  /\ refused' = IF pushError(Q) = QueueClosed
                THEN refused \cup {pushes + 1} ELSE refused
  /\ UNCHANGED <<pc, cur, handled, stopAt, discarded, closes, thrown, stopPushes>>

\* queue.pop(sig) by a consumer.
Pop(sig) ==
  /\ pops < MaxPops
  /\ Install(pop(Q, sig))
  /\ UNCHANGED <<pushes, pc, cur, handled, stopAt, discarded, refused, closes,
                 thrown, stopPushes>>

\* abortController.abort() by the owner of a consumer's signal.
Cancel(sig) ==
  /\ ~aborted[sig]
  /\ Install(abort(Q, sig))
  /\ UNCHANGED <<pushes, pc, cur, handled, stopAt, discarded, refused, closes,
                 thrown, stopPushes>>

\* queue.close(), whoever calls it.
CloseCall ==
  /\ Install(close(Q))
  /\ discarded' = IF closed THEN discarded ELSE Range(messages)
  /\ UNCHANGED <<pushes, pc, cur, handled, stopAt, refused, thrown, stopPushes>>

\* queue.close()
Close == CloseCall /\ UNCHANGED closes

\* queue.close(), the calls counted.
CountedClose ==
  /\ closes < MaxCloses
  /\ closes' = closes + 1
  /\ CloseCall

\* queue.stream(handler): the first loop() runs up to its await.
Stream(s) ==
  /\ pc[s] = "idle"
  /\ pops < MaxPops
  /\ Install(pop(Q, s))
  /\ cur' = [cur EXCEPT ![s] = pops + 1]
  /\ pc' = [pc EXCEPT ![s] = "awaiting"]
  /\ UNCHANGED <<pushes, handled, stopAt, discarded, refused, closes, thrown,
                 stopPushes>>

\* Faulty variant of StopCall: stop() ends the loop at once and the value the
\* loop holds is dropped.
StopEndsLoop(s) ==
  /\ pc[s] # "idle"
  /\ Install(abort(Q, s))
  /\ stopAt' = [stopAt EXCEPT ![s] = IF @ = -1 THEN Len(handled[s]) ELSE @]
  /\ pc' = [pc EXCEPT ![s] = "done"]
  /\ UNCHANGED <<pushes, cur, handled, discarded, refused, closes, thrown>>

\* handle.stop(), whoever calls it.
StopCall(s) ==
  /\ pc[s] # "idle"
  /\ Install(abort(Q, s))
  /\ stopAt' = [stopAt EXCEPT ![s] = IF @ = -1 THEN Len(handled[s]) ELSE @]
  /\ UNCHANGED <<pushes, pc, cur, handled, discarded, refused, closes, thrown>>

\* handle.stop()
Stop(s) == StopCall(s) /\ UNCHANGED stopPushes

\* handle.stop(), the number of pushes made before the first one recorded.
RecordedStop(s) ==
  /\ StopCall(s)
  /\ stopPushes' = [stopPushes EXCEPT ![s] = IF @ = -1 THEN pushes ELSE @]

\* The calls a handler invocation makes on the queue.
handlerCloses(act) == act \in {"close", "closePush", "closePop"}
handlerPushes(act) == act = "closePush"
handlerPops(act) == act = "closePop"

\* The queue after handler(msg): act "closePush" pushes v after its close,
\* act "closePop" pops (without a signal) after its close.
handler(q, act, v) ==
  LET q1 == IF handlerCloses(act) THEN close(q) ELSE q
      q2 == IF handlerPushes(act) THEN push(q1, v) ELSE q1
  IN IF handlerPops(act) THEN pop(q2, NoSignal) ELSE q2

\* Whether handler(msg) throws: by itself, or because its push threw.
handlerThrows(q, act) ==
  \/ act = "throw"
  \/ handlerPushes(act) /\ pushError(close(q)) = QueueClosed

\* Faulty variant of loopGoesOn: the error of the handler is swallowed.
loopGoesOnAfterError(threw) == TRUE

\* handler(msg); loop(): loop() is reached only when handler did not throw.
loopGoesOn(threw) == ~threw

\* The loop of s after `await this.pop(signal)` fulfilled: handler(msg), and
\* then, unless the handler threw, loop() up to its next await.
Dispatch(s, act) ==
  /\ pc[s] = "awaiting"
  /\ state[cur[s]] = "fulfilled"
  /\ handlerPushes(act) => pushes < MaxPush
  /\ handlerPops(act) => pops + 1 < MaxPops
  /\ handled' = [handled EXCEPT ![s] = Append(@, value[cur[s]])]
  /\ pushes' = IF handlerPushes(act) THEN pushes + 1 ELSE pushes
  /\ refused' = IF handlerPushes(act) /\ pushError(close(Q)) = QueueClosed
                THEN refused \cup {pushes + 1} ELSE refused
  /\ discarded' = IF handlerCloses(act) /\ ~closed
                  THEN Range(messages) ELSE discarded
  /\ thrown' = [thrown EXCEPT ![s] = @ \/ handlerThrows(Q, act)]
  /\ LET q1 == handler(Q, act, pushes + 1)
     IN IF loopGoesOn(handlerThrows(Q, act))
        THEN /\ q1.pops < MaxPops
             /\ Install(pop(q1, s))
             /\ cur' = [cur EXCEPT ![s] = q1.pops + 1]
             /\ pc' = pc
        ELSE /\ Install(q1)
             /\ cur' = cur
             /\ pc' = [pc EXCEPT ![s] = "failed"]
  /\ UNCHANGED <<stopAt, stopPushes, closes>>

\* The loop of s after `await this.pop(signal)` rejected: 'Stream stopped' ends
\* the loop, any other error is thrown again out of the loop.
Caught(s) ==
  /\ pc[s] = "awaiting"
  /\ state[cur[s]] \in {Cancelled, QueueClosed}
  /\ pc' = [pc EXCEPT ![s] = IF state[cur[s]] = Cancelled THEN "done" ELSE "failed"]
  /\ UNCHANGED <<messages, pendingResolves, pendingRejects, closed, state,
                 value, signal, registered, abortedAtCall, aborted, listeners,
                 pops, pushes, cur, handled, stopAt, discarded, refused,
                 closes, thrown, stopPushes, ovars>>

Next ==
  \/ Push
  \/ \E sig \in UserSignals \cup {NoSignal} : Pop(sig)
  \/ \E sig \in UserSignals : Cancel(sig)
  \/ Close
  \/ \E s \in Streams : Stream(s)
  \/ \E s \in Streams : Stop(s)
  \/ \E s \in Streams : \E act \in HandlerActs : Dispatch(s, act)
  \/ \E s \in Streams : Caught(s)

Spec == Init /\ [][Next]_vars

\* One queue with a single stream, whose handler returns or throws; the close
\* calls are counted and stop() records the pushes made before it.
HandlerReturnsOrThrows == {"return", "throw"}

Next1 ==
  \/ Push
  \/ \E sig \in UserSignals \cup {NoSignal} : Pop(sig)
  \/ \E sig \in UserSignals : Cancel(sig)
  \/ CountedClose
  \/ Stream("s1")
  \/ RecordedStop("s1")
  \/ \E act \in HandlerReturnsOrThrows : Dispatch("s1", act)
  \/ Caught("s1")

Spec1 == Init /\ [][Next1]_vars

\* The continuation of an await whose promise has settled is a queued
\* microtask: it runs.
FairSpec1 ==
  /\ Spec1
  /\ WF_vars(\E act \in HandlerReturnsOrThrows : Dispatch("s1", act))
  /\ WF_vars(Caught("s1"))

(***************************************************************************)
(* The stores on their own: get calls on one AsyncQueueStore and on one    *)
(* BufferQueueStore.                                                       *)
(***************************************************************************)
queueVars == <<messages, pendingResolves, pendingRejects, closed, state, value,
               signal, registered, abortedAtCall, aborted, listeners, pops,
               pushes, pc, cur, handled, stopAt, discarded, refused, closes,
               thrown, stopPushes>>

\* AsyncQueueStore.get(key)
AsyncQueueStoreGet(key) ==
  /\ Len(got) < MaxGets
  /\ LET r == get(aqs, key, got)
     IN /\ aqs' = r.map
        /\ got' = Append(got, [store |-> "AsyncQueueStore", key |-> key,
                               queue |-> r.queue])
  /\ UNCHANGED <<bqs, checked, cqs, cgot, queueVars>>

\* BufferQueueStore.get(key)
BufferQueueStoreGet(key) ==
  /\ Len(got) < MaxGets
  /\ LET r == get(bqs, key, got)
     IN /\ bqs' = r.map
        /\ got' = Append(got, [store |-> "BufferQueueStore", key |-> key,
                               queue |-> r.queue])
  /\ UNCHANGED <<aqs, checked, cqs, cgot, queueVars>>

StoreNext ==
  \/ \E key \in Keys : AsyncQueueStoreGet(key)
  \/ \E key \in Keys : BufferQueueStoreGet(key)

StoreSpec == Init /\ [][StoreNext]_vars

(***************************************************************************)
(* A channel-addressed store on its own: get calls on one store, which is  *)
(* a BufferQueueStore or an AsyncQueueStore.                               *)
(***************************************************************************)
\* get(from, to, channel) of the store of class store
ChannelGet(store, from, to, channel) ==
  /\ Len(cgot) < MaxChannelGets
  /\ cgot # <<>> => store = cgot[1].store
  /\ LET r == get(cqs, channelKey(from, to, channel), cgot)
     IN /\ cqs' = r.map
        /\ cgot' = Append(cgot, [store |-> store, from |-> from, to |-> to,
                                 channel |-> channel, queue |-> r.queue])
  /\ UNCHANGED <<aqs, bqs, got, checked, queueVars>>

ChannelNext ==
  \E store \in ChannelStoreNames : \E from \in Identifiers :
    \E to \in Identifiers : \E channel \in Channels :
      ChannelGet(store, from, to, channel)

ChannelSpec == Init /\ [][ChannelNext]_vars

(***************************************************************************)
(* The validator on its own: one call of checkSettingsValid with any       *)
(* arguments (the function is pure: a call does not depend on earlier      *)
(* ones).                                                                  *)
(***************************************************************************)
Check(circuit, mpcSettings, name, input) ==
  /\ checked' = [called |-> TRUE, circuit |-> circuit,
                 mpcSettings |-> mpcSettings, name |-> name, input |-> input,
                 result |-> checkSettingsValid(circuit, mpcSettings, name, input)]
  /\ UNCHANGED <<aqs, bqs, got, cqs, cgot, queueVars>>

CheckNext ==
  /\ ~checked.called
  /\ \E circuit \in Circuit : \E mpcSettings \in MpcSettings :
       \E name \in CallerNames : \E input \in SUBSET InputNames :
         Check(circuit, mpcSettings, name, input)

CheckSpec == Init /\ [][CheckNext]_vars

(***************************************************************************)
(* Properties of the queue.                                                *)
(***************************************************************************)

Pending == {p \in PopIds : state[p] = "pending"}
Settled == {p \in PopIds : state[p] \in {"fulfilled", Cancelled, QueueClosed}}
Occurrences(s, x) == Cardinality({i \in 1..Len(s) : s[i] = x})
Delivered == {value[p] : p \in {r \in PopIds : state[r] = "fulfilled"}}
Min(S) == CHOOSE x \in S : \A y \in S : x <= y

\* C1: in every reachable state the buffer (messages) and the waiter list
\* (pendingResolves) are not both non-empty.
C1_NeverBothNonEmpty == ~(Len(messages) > 0 /\ Len(pendingResolves) > 0)

\* A push was handed to a waiter, a pop was cancelled, and a later push was
\* buffered.
C1_Witness ==
  /\ \E p \in PopIds : registered[p] /\ state[p] = "fulfilled"
  /\ \E p \in PopIds : registered[p] /\ state[p] = Cancelled
  /\ Len(messages) > 0

\* C2: FIFO.  While the queue is open and no signal has fired, the k-th pop
\* call has received the k-th pushed value as soon as both calls were made,
\* and is pending before that, whatever the interleaving of pushes and pops.
C2_Fifo ==
  (~closed /\ \A s \in Signals : ~aborted[s]) =>
    \A k \in 1..pops :
      IF k <= pushes
      THEN state[k] = "fulfilled" /\ value[k] = k
      ELSE state[k] = "pending"

\* Pop 1 waited for push 1, push 2 was buffered and then taken by pop 2.
C2_Witness ==
  /\ ~closed /\ \A s \in Signals : ~aborted[s]
  /\ pops >= 2 /\ pushes = 2
  /\ registered[1] /\ ~registered[2]
  /\ state[1] = "fulfilled" /\ state[2] = "fulfilled"

\* C3: a push on an open queue with pending pops fulfils exactly the pending
\* pop that was called earliest, with the pushed value; every other promise,
\* the buffer and every stream's handled values are unchanged.
C3_PushStep ==
  (pushes' = pushes + 1 /\ (pushes + 1) \notin refused' /\ Pending # {}) =>
    LET e == Min(Pending)
    IN /\ state'[e] = "fulfilled" /\ value'[e] = pushes + 1
       /\ \A p \in PopIds \ {e} : state'[p] = state[p] /\ value'[p] = value[p]
       /\ messages' = messages
       /\ handled' = handled
       /\ pendingResolves' = Tail(pendingResolves)
C3_OneDelivery == [][C3_PushStep]_vars

\* Two streams wait; the push went to the stream that was started first and
\* the other one is still pending.
C3_Witness ==
  /\ pc["s1"] = "awaiting" /\ pc["s2"] = "awaiting"
  /\ cur["s1"] # cur["s2"]
  /\ \E a, b \in Streams :
       /\ cur[a] < cur[b]
       /\ registered[cur[a]] /\ state[cur[a]] = "fulfilled"
       /\ state[cur[b]] = "pending"

\* C4: a pop is in each waiter list exactly once while it is pending and not
\* at all otherwise (so push, cancel and close never act on a settled pop),
\* and a settled pop keeps its outcome and its value for ever.
C4_WaitersArePending ==
  \A p \in PopIds :
    /\ Occurrences(pendingResolves, p) = (IF p \in Pending THEN 1 ELSE 0)
    /\ Occurrences(pendingRejects, p) = (IF p \in Pending THEN 1 ELSE 0)
    /\ p \in Pending => registered[p]
C4_SettledStays ==
  \A p \in Settled : state'[p] = state[p] /\ value'[p] = value[p]
C4_SettlesOnce == []C4_WaitersArePending /\ [][C4_SettledStays]_vars

\* Three pops that registered a waiter ended in the three outcomes.
C4_Witness ==
  /\ \E p \in PopIds : registered[p] /\ state[p] = "fulfilled"
  /\ \E p \in PopIds : registered[p] /\ state[p] = Cancelled
  /\ \E p \in PopIds : registered[p] /\ state[p] = QueueClosed

\* C5: when a signal fires, the pending pops given that signal are rejected
\* with 'Stream stopped' and exactly their entries leave pendingResolves and
\* pendingRejects; every other promise is unchanged, the other waiters keep
\* their relative order, and the waiter list stays in the order of the pop
\* calls (so that later pushes go to the earliest remaining pop).
C5_AbortStep ==
  \A sig \in Signals :
    (~aborted[sig] /\ aborted'[sig]) =>
      /\ \A p \in PopIds :
           IF p \in Pending /\ signal[p] = sig
           THEN state'[p] = Cancelled
           ELSE state'[p] = state[p] /\ value'[p] = value[p]
      /\ pendingResolves' = SelectSeq(pendingResolves, LAMBDA r : signal[r] # sig)
      /\ pendingRejects' = SelectSeq(pendingRejects, LAMBDA r : signal[r] # sig)
      /\ messages' = messages
      /\ closed' = closed
C5_InCallOrder ==
  /\ Range(pendingResolves) = Pending
  /\ \A i, j \in 1..Len(pendingResolves) :
       i < j => pendingResolves[i] < pendingResolves[j]
C5_CancellationIsolation == []C5_InCallOrder /\ [][C5_AbortStep]_vars

\* Scenario C: P1, P2, P3 pending, P2 cancelled, then two pushes: P1 has the
\* first value and P3 the second.
C5_Witness ==
  /\ \A p \in 1..3 : registered[p]
  /\ state[1] = "fulfilled" /\ value[1] = 1
  /\ state[2] = Cancelled
  /\ state[3] = "fulfilled" /\ value[3] = 2

\* C6: the first close rejects every pop pending at that moment with
\* 'Queue is closed', with or without a signal, changes no settled promise,
\* and leaves pendingResolves and pendingRejects empty.
C6_CloseStep ==
  (~closed /\ closed') =>
    /\ \A p \in PopIds :
         IF p \in Pending
         THEN state'[p] = QueueClosed
         ELSE p \in Settled => state'[p] = state[p]
    /\ pendingResolves' = <<>>
    /\ pendingRejects' = <<>>
C6_CloseRejectsPending == [][C6_CloseStep]_vars

\* Close rejected a pending pop that had a signal and one that had none.
C6_Witness ==
  /\ closed
  /\ \E p, r \in PopIds :
       /\ registered[p] /\ state[p] = QueueClosed /\ signal[p] = NoSignal
       /\ registered[r] /\ state[r] = QueueClosed /\ signal[r] # NoSignal

\* C7: closed never goes back to false, and while it is true the buffer and
\* both waiter lists are empty.
C7_EmptyWhenClosed ==
  closed => messages = <<>> /\ pendingResolves = <<>> /\ pendingRejects = <<>>
C7_ClosedForEver ==
  []C7_EmptyWhenClosed /\ [][closed => closed']_vars

\* After close a push was refused and a pop was rejected without waiting.
C7_Witness ==
  /\ closed
  /\ refused # {}
  /\ \E p \in PopIds : ~registered[p] /\ state[p] = QueueClosed

\* C8: the values in the buffer at close are discarded: the buffer is empty
\* once the queue is closed, and no pop and no handler ever has such a value.
C8_DiscardedNeverDelivered ==
  /\ closed => messages = <<>>
  /\ \A v \in discarded :
       /\ v \notin Delivered
       /\ \A s \in Streams : v \notin Range(handled[s])

\* Two values were discarded, and pops were called after the close.
C8_Witness ==
  /\ closed
  /\ Cardinality(discarded) = 2
  /\ \E p \in PopIds : state[p] = QueueClosed

\* C9: the abort listeners attached to a signal are exactly the onAbort of the
\* pending pops that were given that signal: a settled pop has no listener.
C9_ListenersArePending ==
  \A sig \in Signals :
    Range(listeners[sig]) = {p \in Pending : signal[p] = sig}

\* C10: after stop() of a stream, its handler is invoked at most once more.
C10_AtMostOneAfterStop ==
  \A s \in Streams : stopAt[s] >= 0 => Len(handled[s]) - stopAt[s] <= 1

\* C11: a value pushed after the first stop() of a stream is never given to
\* the handler of that stream.
C11_LaterPushNotDispatched ==
  \A s \in Streams :
    stopPushes[s] >= 0 =>
      \A i \in 1..Len(handled[s]) : handled[s][i] <= stopPushes[s]

\* C12: a stream whose pop was rejected with 'Queue is closed' ends silently:
\* its loop never fails with that error.
C12_ClosedLoopEndsSilently ==
  \A s \in Streams : ~(pc[s] = "failed" /\ state[cur[s]] = QueueClosed)

\* C13: once the handler of a stream has thrown, the loop is over: stream()
\* had returned before, the handler is not invoked again, the loop calls pop
\* no more and has no waiter in the queue.
C13_LoopOver ==
  \A s \in Streams :
    thrown[s] =>
      /\ pc[s] = "failed"
      /\ \A p \in Pending : signal[p] # s
C13_NoMoreSteps ==
  \A s \in Streams :
    thrown[s] =>
      /\ handled'[s] = handled[s]
      /\ cur'[s] = cur[s]
      /\ \A p \in PopIds : (state[p] = "none" /\ state'[p] # "none") => signal'[p] # s
C13_HandlerError == []C13_LoopOver /\ [][C13_NoMoreSteps]_vars

\* The handler threw on value 1, and value 2, pushed while the queue is open,
\* stays in the buffer.
C13_Witness ==
  /\ thrown["s1"] /\ handled["s1"] = <<1>>
  /\ ~closed /\ messages = <<2>>

\* C14: a push on a closed queue throws 'Queue is closed' and changes nothing
\* of the queue, its promises and its signals; the refused value is in no
\* buffer, no promise and no handler invocation.
C14_RefusedStep ==
  (pushes' = pushes + 1 /\ handled' = handled /\ closed) =>
    /\ UNCHANGED qvars
    /\ refused' = refused \cup {pushes + 1}
C14_RefusedNowhere ==
  \A v \in refused :
    /\ v \notin Range(messages)
    /\ v \notin Delivered
    /\ \A s \in Streams : v \notin Range(handled[s])
C14_PushOnClosed == []C14_RefusedNowhere /\ [][C14_RefusedStep]_vars

\* Value 1 was buffered and discarded by close, value 2 was pushed after it.
C14_Witness == refused = {2} /\ discarded = {1}

\* C15: a pop on a closed queue is rejected with 'Queue is closed' at once,
\* also when its signal is already aborted: it registers no waiter and
\* attaches no listener.
C15_PopOnClosedStep ==
  (pops' > pops /\ closed') =>
    /\ \A p \in (pops + 1)..pops' :
         state'[p] = QueueClosed /\ ~registered'[p]
    /\ pendingResolves' = <<>>
    /\ pendingRejects' = <<>>
    /\ \A sig \in Signals : Range(listeners'[sig]) \subseteq Range(listeners[sig])
C15_PopOnClosed == [][C15_PopOnClosedStep]_vars

\* A pop called on the closed queue with an aborted signal.
C15_Witness ==
  \E p \in PopIds :
    /\ abortedAtCall[p] /\ signal[p] \in UserSignals
    /\ state[p] = QueueClosed /\ ~registered[p]

\* C16: close is idempotent.  Every close call leaves the queue closed, the
\* queue is closed after the first call for ever, and a close call on a closed
\* queue changes nothing but the count of the calls.
C16_SecondCloseStep ==
  /\ closes' = closes + 1 => closed'
  /\ (closes' = closes + 1 /\ closed) =>
       UNCHANGED <<qvars, pushes, pc, cur, handled, stopAt, discarded, refused,
                   thrown, stopPushes>>
C16_IdempotentClose ==
  [](closes >= 1 => isClosed) /\ [][C16_SecondCloseStep]_vars

\* Close was called twice; the first call rejected a pending pop.
C16_Witness ==
  /\ closes = 2 /\ isClosed
  /\ \E p \in PopIds : registered[p] /\ state[p] = QueueClosed

\* C17: a pop on an open queue with an empty buffer and an aborted signal is
\* rejected with 'Stream stopped' at once and changes nothing else: no waiter
\* in either list, no listener.
C17_PreAbortedStep ==
  LET p == pops + 1
  IN (/\ pops' = p /\ ~closed' /\ messages = <<>>
      /\ signal'[p] # NoSignal /\ aborted[signal'[p]]) =>
       /\ state'[p] = Cancelled
       /\ ~registered'[p]
       /\ UNCHANGED <<messages, pendingResolves, pendingRejects, closed,
                      listeners, aborted>>
       /\ \A r \in PopIds \ {p} : state'[r] = state[r]
C17_PreAborted == [][C17_PreAbortedStep]_vars

\* A consumer's pop was called with its signal already aborted.
C17_Witness ==
  \E p \in PopIds :
    /\ signal[p] \in UserSignals /\ abortedAtCall[p]
    /\ state[p] = Cancelled /\ ~registered[p]

\* C18: while a stream is the only consumer of an open queue, is not stopped
\* and its handler has not thrown, its handler has been invoked with the
\* pushed values in push order, once each, and every pushed value is
\* eventually given to the handler.
Sole(s) ==
  /\ pc[s] = "awaiting"
  /\ ~closed /\ ~aborted[s] /\ ~thrown[s]
  /\ \A p \in 1..pops : signal[p] = s
C18_InOrder ==
  Sole("s1") => handled["s1"] = [i \in 1..Len(handled["s1"]) |-> i]
C18_Live == []<>(Sole("s1") => Len(handled["s1"]) = pushes)
C18_StreamDelivers == []C18_InOrder /\ C18_Live

\* Value 1 was in the buffer when stream() was called, value 2 was pushed
\* while the loop waited; the handler had both.
C18_Witness ==
  /\ Sole("s1")
  /\ handled["s1"] = <<1, 2>>
  /\ ~registered[1] /\ registered[2]

\* C19: a value a stream's pop has taken is given to the handler, whatever is
\* called meanwhile (stop included): until then the loop keeps it.
InHand(s) == pc[s] = "awaiting" /\ state[cur[s]] = "fulfilled"
C19_KeptStep ==
  \A s \in Streams :
    InHand(s) =>
      \/ handled'[s] = Append(handled[s], value[cur[s]])
      \/ /\ pc'[s] = "awaiting" /\ cur'[s] = cur[s]
         /\ state'[cur[s]] = "fulfilled" /\ value'[cur[s]] = value[cur[s]]
         /\ handled'[s] = handled[s]
C19_Live == []<>(~InHand("s1"))
C19_PoppedIsDispatched == [][C19_KeptStep]_vars /\ C19_Live

\* A push fulfilled the waiter of the stream, stop() was called, and the
\* handler was invoked with that value afterwards.
C19_Witness ==
  /\ aborted["s1"] /\ stopAt["s1"] >= 0
  /\ Len(handled["s1"]) > stopAt["s1"]
  /\ \E p \in PopIds :
       /\ signal[p] = "s1" /\ registered[p] /\ state[p] = "fulfilled"
       /\ value[p] = handled["s1"][stopAt["s1"] + 1]

\* C20: no step that ends with the queue closed (a close, or a push or a pop
\* on the closed queue, by any caller, a handler included) fulfils a pop,
\* registers a waiter or leaves a value in the buffer, and a push in such a
\* step is refused.
C20_ClosedStep ==
  closed' =>
    /\ messages' = <<>>
    /\ pendingResolves' = <<>>
    /\ pendingRejects' = <<>>
    /\ \A p \in PopIds :
         /\ state'[p] = "fulfilled" => state[p] = "fulfilled"
         /\ registered'[p] => registered[p]
    /\ pushes' > pushes => (pushes + 1) \in refused'
C20_AtomicClose == [][C20_ClosedStep]_vars

\* The handler of a stream, invoked with value 1, closed the queue on which a
\* consumer's pop was waiting, and value 2, pushed after that, was refused.
C20_Witness ==
  /\ closed
  /\ \E s \in Streams : thrown[s] /\ handled[s] = <<1>>
  /\ refused = {2}
  /\ \E p \in PopIds :
       signal[p] \in UserSignals /\ registered[p] /\ state[p] = QueueClosed

\* C21 as stated: once the queue is closed no handler is invoked any more.
C21_NoHandlerAfterClose == [][closed => handled' = handled]_vars

\* C21 amended: in a step that ends with the queue closed no stream gets a new
\* value in hand, and a handler invoked on the closed queue gets the value the
\* stream's pop had taken before the close; the loop's next pop is rejected
\* with 'Queue is closed', so no invocation follows it.
C21_ClosedStep ==
  \A s \in Streams :
    closed' =>
      /\ (pc'[s] = "awaiting" /\ state'[cur'[s]] = "fulfilled") =>
           (InHand(s) /\ cur'[s] = cur[s] /\ handled'[s] = handled[s])
      /\ handled'[s] # handled[s] =>
           /\ InHand(s)
           /\ handled'[s] = Append(handled[s], value[cur[s]])
           /\ pc'[s] = "awaiting" => state'[cur'[s]] = QueueClosed
C21_OnlyTheValueInHand == [][C21_ClosedStep]_vars

\* The stream took value 1, the queue was closed, a consumer's pop (the
\* second) was refused, and then the handler was invoked with value 1 and
\* the loop's next pop (the third) was rejected.
C21_Witness ==
  /\ closed /\ handled["s1"] = <<1>> /\ cur["s1"] = 3
  /\ state[3] = QueueClosed
  /\ signal[2] = NoSignal /\ state[2] = QueueClosed /\ ~registered[2]

(***************************************************************************)
(* Properties of the stores and of the validator.                          *)
(***************************************************************************)

\* C22: on one store, two get calls return the same queue instance exactly
\* when their keys are equal; the instance of a key is made at the first
\* call and then neither replaced nor removed.
C22_SameQueueIffSameKey ==
  \A i, j \in 1..Len(got) :
    got[i].store = got[j].store =>
      (got[i].queue = got[j].queue <=> got[i].key = got[j].key)
C22_KeptStep ==
  \A key \in Keys :
    /\ has(aqs, key) => aqs'[key] = aqs[key]
    /\ has(bqs, key) => bqs'[key] = bqs[key]
    /\ got' # got =>
         LET call == got'[Len(got')]
             map == IF call.store = "AsyncQueueStore" THEN aqs' ELSE bqs'
         IN call.queue = map[call.key] /\ has(map, call.key)
C22_KeyedStore == []C22_SameQueueIffSameKey /\ [][C22_KeptStep]_vars

\* get("k1"), get("k2"), get("k1") on the AsyncQueueStore: the third call
\* returned the queue of the first.
C22_Witness ==
  /\ Len(got) = 3
  /\ \A i \in 1..3 : got[i].store = "AsyncQueueStore"
  /\ got[1].key = "k1" /\ got[2].key = "k2" /\ got[3].key = "k1"
  /\ got[3].queue = got[1].queue /\ got[2].queue # got[1].queue

\* The five conditions on the arguments of the checked call.
InputsOf(i) == Range(checked.mpcSettings[i].inputs)
Participants == DOMAIN checked.mpcSettings
Overlap ==
  \E i, j \in Participants : i # j /\ InputsOf(i) \cap InputsOf(j) # {}
UnionDiffers ==
  UNION {InputsOf(i) : i \in Participants} # checked.circuit.inputs
ForeignOutput ==
  \E i \in Participants :
    \E k \in DOMAIN checked.mpcSettings[i].outputs :
      checked.mpcSettings[i].outputs[k] \notin checked.circuit.outputs
Called(i) ==
  \/ checked.mpcSettings[i].name = checked.name
  \/ checked.mpcSettings[i].name = NoName /\ toString(i - 1) = checked.name
CallerUnknown == \A i \in Participants : ~Called(i)
KeysDiffer ==
  \E i \in Participants :
    /\ Called(i) /\ \A j \in 1..(i - 1) : ~Called(j)
    /\ checked.input # InputsOf(i)
Repeats ==
  \E i \in Participants :
    \E k, l \in DOMAIN checked.mpcSettings[i].inputs :
      k # l /\ checked.mpcSettings[i].inputs[k] = checked.mpcSettings[i].inputs[l]

\* C23: checkSettingsValid returns an error whenever an input is claimed by
\* two participants, or the claimed inputs are not the circuit's inputs, or a
\* participant's output is not an output of the circuit, or no participant
\* has the caller's name, or the keys of the supplied input are not the
\* caller's inputs.
C23_RejectsInvalid ==
  (/\ checked.called
   /\ Overlap \/ UnionDiffers \/ ForeignOutput \/ CallerUnknown \/ KeysDiffer) =>
    checked.result # Undefined

\* The settings are right and the caller is known, but a key is missing in
\* the supplied input.
C23_Witness ==
  /\ checked.called
  /\ ~Overlap /\ ~UnionDiffers /\ ~ForeignOutput /\ ~CallerUnknown
  /\ KeysDiffer /\ checked.input = {}
  /\ checked.result = <<"Input keys do not match participant inputs">>

\* C24 as stated: no error when none of the five conditions holds.
C24_NoOtherError ==
  (/\ checked.called
   /\ ~Overlap /\ ~UnionDiffers /\ ~ForeignOutput /\ ~CallerUnknown
   /\ ~KeysDiffer) =>
    checked.result = Undefined

\* C24 amended: checkSettingsValid returns undefined when none of the five
\* conditions holds and no participant's inputs list names an input twice.
C24_AcceptsValid ==
  (/\ checked.called
   /\ ~Overlap /\ ~UnionDiffers /\ ~ForeignOutput /\ ~CallerUnknown
   /\ ~KeysDiffer /\ ~Repeats) =>
    checked.result = Undefined

\* alice gives a, the second participant gives b, both read c, and alice
\* calls with a value for a.
C24_Witness ==
  /\ checked.called /\ checked.result = Undefined
  /\ checked.circuit = [inputs |-> {"a", "b"}, outputs |-> {"c"}]
  /\ Len(checked.mpcSettings) = 2
  /\ checked.mpcSettings[1] = [name |-> "alice", inputs |-> <<"a">>, outputs |-> <<"c">>]
  /\ checked.mpcSettings[2].inputs = <<"b">> /\ checked.mpcSettings[2].outputs = <<"c">>
  /\ checked.name = "alice" /\ checked.input = {"a"}

(***************************************************************************)
(* Further properties of the queue.                                        *)
(***************************************************************************)

\* C25: a pop on an open queue whose buffer is not empty is fulfilled with
\* the head of the buffer, which leaves the buffer; it registers no waiter
\* and no listener, also when its signal is already aborted.
C25_BufferedStep ==
  LET p == pops + 1
  IN (pops' = p /\ ~closed' /\ messages # <<>>) =>
       /\ state'[p] = "fulfilled" /\ value'[p] = Head(messages)
       /\ messages' = Tail(messages)
       /\ ~registered'[p]
       /\ UNCHANGED <<pendingResolves, pendingRejects, listeners>>
C25_BufferFirst == [][C25_BufferedStep]_vars

\* A consumer's pop with an aborted signal took a buffered value.
C25_Witness ==
  \E p \in PopIds :
    /\ signal[p] \in UserSignals /\ abortedAtCall[p]
    /\ state[p] = "fulfilled" /\ ~registered[p]

\* C26: when a signal fires and no pop called with it is pending (they were
\* fulfilled, or rejected by close), the buffer, both waiter lists, the
\* closed flag and every promise are unchanged.
C26_LateAbortStep ==
  \A sig \in Signals :
    (/\ ~aborted[sig] /\ aborted'[sig]
     /\ \A p \in PopIds : signal[p] = sig => p \notin Pending) =>
      UNCHANGED <<messages, pendingResolves, pendingRejects, closed, state, value>>
C26_LateAbort == [][C26_LateAbortStep]_vars

\* The signal fired after a push had fulfilled its waiting pop, while
\* another pop was still waiting.
C26_Witness ==
  /\ aborted["c1"]
  /\ \E p \in PopIds :
       signal[p] = "c1" /\ registered[p] /\ state[p] = "fulfilled"
  /\ Pending # {}

\* C27: pendingResolves and pendingRejects hold the same pops in the same
\* order, all of them pending, and the first close rejects exactly the pops
\* in pendingResolves.
C27_SameWaiters ==
  /\ pendingResolves = pendingRejects
  /\ Range(pendingResolves) \subseteq Pending
C27_CloseRejectsWaiters ==
  (~closed /\ closed') =>
    \A p \in PopIds :
      (state[p] = "pending" /\ state'[p] = QueueClosed)
        <=> p \in Range(pendingResolves)
C27_Aligned == []C27_SameWaiters /\ [][C27_CloseRejectsWaiters]_vars

\* Three pops waited and the second was cancelled: both lists hold the first
\* and the third.
C27_Witness ==
  /\ state[2] = Cancelled /\ registered[2]
  /\ pendingResolves = <<1, 3>> /\ pendingRejects = <<1, 3>>

\* C28: a value push accepted is in the buffer or in one fulfilled pop, never
\* in two places; while the queue is open it is in exactly one, and once the
\* queue is closed a value that is in none was discarded by close.
Accepted == (1..pushes) \ refused
Places(v) ==
  Occurrences(messages, v)
    + Cardinality({p \in PopIds : state[p] = "fulfilled" /\ value[p] = v})
C28_Conserved ==
  \A v \in Accepted :
    /\ Places(v) <= 1
    /\ ~closed => Places(v) = 1
    /\ Places(v) = 0 => v \in discarded

\* A waiting pop was cancelled and the value pushed afterwards is in the
\* buffer of the open queue.
C28_Witness ==
  /\ ~closed
  /\ state[1] = Cancelled /\ registered[1]
  /\ messages = <<1>>

\* C29: once the queue is closed no pop is pending, a pop called later is
\* settled at once, and the loop of a stream comes to an end.
C29_NonePending == closed => Pending = {}
C29_LoopEnds == []<>(closed => pc["s1"] # "awaiting")
C29_AllSettle == []C29_NonePending /\ C29_LoopEnds

\* Close rejected the waiting pop of a consumer and the one of the stream,
\* and the loop ended.
C29_Witness ==
  /\ closed /\ pc["s1"] = "failed"
  /\ registered[cur["s1"]] /\ state[cur["s1"]] = QueueClosed
  /\ \E p \in PopIds :
       signal[p] \in UserSignals /\ registered[p] /\ state[p] = QueueClosed

\* C30: when a signal fires with two or more pops pending on it, all of them
\* are rejected with 'Stream stopped', their listeners and waiters are gone,
\* and the other waiters are still pending, in the order they had.
OnSignal(sig) == {p \in Pending : signal[p] = sig}
C30_SharedSignalStep ==
  \A sig \in Signals :
    (~aborted[sig] /\ aborted'[sig] /\ Cardinality(OnSignal(sig)) >= 2) =>
      /\ \A p \in OnSignal(sig) : state'[p] = Cancelled
      /\ listeners'[sig] = <<>>
      /\ Range(pendingResolves') = Pending \ OnSignal(sig)
      /\ Range(pendingRejects') = Pending \ OnSignal(sig)
      /\ \A p \in Pending \ OnSignal(sig) : state'[p] = "pending"
      /\ \A i, j \in 1..Len(pendingResolves') :
           i < j =>
             indexOf(pendingResolves, pendingResolves'[i])
               < indexOf(pendingResolves, pendingResolves'[j])
C30_SharedSignal == [][C30_SharedSignalStep]_vars

\* The first and the third pop waited with the same signal, the second
\* without one; the signal fired.
C30_Witness ==
  /\ \A p \in {1, 3} : signal[p] = "c1" /\ registered[p] /\ state[p] = Cancelled
  /\ signal[2] = NoSignal /\ state[2] = "pending"
  /\ pendingResolves = <<2>> /\ pendingRejects = <<2>>

(***************************************************************************)
(* Properties of the channel-addressed stores.                             *)
(***************************************************************************)

\* C31: two get(from, to, channel) calls on a store return the same queue
\* exactly when from, to and channel of the two calls are equal.
C31_SameQueueIffSameChannel ==
  \A i, j \in 1..Len(cgot) :
    cgot[i].queue = cgot[j].queue
      <=> (/\ cgot[i].from = cgot[j].from
           /\ cgot[i].to = cgot[j].to
           /\ cgot[i].channel = cgot[j].channel)

====
